---- MODULE Spec2Model ----
(***************************************************************************)
(* Model of the order page of doctor-k (src/app/order/page.tsx): the cart  *)
(* reconciler, the order submission, the live order subscription and the   *)
(* table-number confirmation, together with the Firestore collection       *)
(* "orders" they talk to.                                                  *)
(*                                                                         *)
(* A handler that awaits is split at each await: the part up to the await  *)
(* is one step, the store's answer is a step of the store, and the         *)
(* continuation is a step of its own.  Handlers read the state of the      *)
(* latest render: React flushes the state updates of a click before the    *)
(* next event is dispatched.                                               *)
(***************************************************************************)
EXTENDS Integers, Sequences, FiniteSets, TLC

VARIABLES
    mounted,        \* the effects of MenuContent have run
    menuItems,      \* useState<MenuItem[]>: the catalog the page has loaded
    cart,           \* useState<CartItem[]>
    isSubmitting,   \* useState(false)
    orders,         \* useState<Order[]>: the local order list
    tableNumber,    \* useState<string>: sequence of characters
    showTableModal, \* useState(true)
    storedTable,    \* localStorage "table_number" (None when absent)
    now,            \* Date.now(), a logical clock
    dbOrders,       \* the Firestore collection "orders", in creation order
    saveCalls,      \* handleOrderNow invocations suspended at await saveOrder
    listener,       \* snapshots emitted to onSnapshot and not yet delivered
    tableCalls,     \* handleTableNumberSubmit invocations suspended at an await
    updateReqs,     \* updateDoc requests sent and not yet answered
    confirms,       \* table confirmations started so far
    categories,     \* useState<Category[]>
    isLoading,      \* useState(true): the page shows "Loading..." while set
    loadCall,       \* the loadInitialData invocation of the first effect
    dbMenuItems,    \* the Firestore collection "menuItems"
    isLoadingOrders,\* useState(true)
    subscription,   \* the onSnapshot listener: "none", "open", "failed", "closed"
    unsubscribes,   \* calls of unsubscribe() so far
    discarded       \* the view has been unmounted

\* what the catalog load reads and writes, besides menuItems
loadVars == <<categories, isLoading, loadCall, dbMenuItems>>

\* the subscription and the life of the view
viewVars == <<isLoadingOrders, subscription, unsubscribes, discarded>>

vars == <<mounted, menuItems, cart, isSubmitting, orders, tableNumber, showTableModal,
          storedTable, now, dbOrders, saveCalls, listener, tableCalls,
          updateReqs, confirms, loadVars, viewVars>>

----------------------------------------------------------------------------
(* Bounds *)

MaxQty == 2         \* largest quantity of a cart line
MaxSubmits == 2     \* order submissions started in one session
MaxOrders == 1      \* documents the store accepts in one session
MaxConfirms == 1    \* table confirmations started in one session
MaxInFlight == 1    \* snapshots emitted and not yet delivered

----------------------------------------------------------------------------
(* Numbers *)

\* A price or a total is a JavaScript number, an IEEE 754 binary64.  The
\* non-negative finite ones are k / 2^s: k is written in binary, lowest
\* bit first and without leading zeros, and s >= 0 is the least scale that
\* makes k an integer.
Precision == 53

RECURSIVE NatBits(_)
NatBits(n) == IF n = 0 THEN <<>> ELSE <<n % 2>> \o NatBits(n \div 2)

\* the number of an integer literal
Num(n) == [k |-> NatBits(n), s |-> 0]

Zeros(n) == [i \in 1..n |-> 0]

\* the bits without the zeros above the highest 1
RECURSIVE TrimTop(_)
TrimTop(b) ==
    IF b # <<>> /\ b[Len(b)] = 0 THEN TrimTop(SubSeq(b, 1, Len(b) - 1)) ELSE b

\* binary addition, exact
RECURSIVE AddBits(_, _, _)
AddBits(a, b, carry) ==
    IF a = <<>> /\ b = <<>>
    THEN IF carry = 1 THEN <<1>> ELSE <<>>
    ELSE LET x == IF a = <<>> THEN 0 ELSE Head(a)
             y == IF b = <<>> THEN 0 ELSE Head(b)
             ra == IF a = <<>> THEN <<>> ELSE Tail(a)
             rb == IF b = <<>> THEN <<>> ELSE Tail(b)
         IN  <<(x + y + carry) % 2>> \o AddBits(ra, rb, (x + y + carry) \div 2)

\* binary multiplication by a non-negative integer, exact
RECURSIVE MulBits(_, _)
MulBits(b, n) ==
    IF n = 0 THEN <<>> ELSE AddBits(b, MulBits(b, n - 1), 0)

\* k / 2^s with the scale made least
RECURSIVE Canon(_, _)
Canon(k, s) ==
    IF k = <<>> THEN [k |-> <<>>, s |-> 0]
    ELSE IF s > 0 /\ Head(k) = 0 THEN Canon(Tail(k), s - 1)
    ELSE [k |-> k, s |-> s]

\* the binary64 nearest to the exact k / 2^s, ties to the even mantissa
Round(k, s) ==
    LET b == TrimTop(k)
        cut == Len(b) - Precision
    IN  IF cut <= 0 THEN Canon(b, s)
        ELSE LET kept == SubSeq(b, cut + 1, Len(b))
                 half == b[cut] = 1
                 sticky == \E i \in 1..(cut - 1) : b[i] = 1
                 up == half /\ (sticky \/ kept[1] = 1)
                 m == IF up THEN AddBits(kept, <<1>>, 0) ELSE kept
             IN  Canon(Zeros(cut) \o m, s)

\* x + y of two numbers
plus(x, y) ==
    LET s == IF x.s > y.s THEN x.s ELSE y.s
    IN  Round(AddBits(Zeros(s - x.s) \o x.k, Zeros(s - y.s) \o y.k, 0), s)

\* x * n of a number and a non-negative integer
times(x, n) == Round(MulBits(x.k, n), x.s)

\* array.reduce((total, x) => total + x, 0): from the left
RECURSIVE SumFrom(_, _)
SumFrom(total, xs) ==
    IF xs = <<>> THEN total ELSE SumFrom(plus(total, Head(xs)), Tail(xs))

----------------------------------------------------------------------------
(* Data *)

\* null, as searchParams.get and localStorage.getItem return it: set apart
\* from every sequence of characters
None == <<"null">>
NaN == [nan |-> TRUE]

\* the catalog of the store: one item with an option, one without
optLarge == [id |-> "o1", name |-> "Large", price |-> Num(3)]
itemA == [id |-> "a", price |-> Num(10), options |-> <<optLarge>>]
itemB == [id |-> "b", price |-> Num(25), options |-> <<>>]
Catalog == {itemA, itemB}

\* a menu priced in tenths: the binary64 numbers of the literals 0.1, 0.2
\* and 0.3, which are 0x1999999999999A / 2^56, 0x1999999999999A / 2^55 and
\* 0x13333333333333 / 2^54
Repeat(b, n) == [i \in 1..(n * Len(b)) |-> b[((i - 1) % Len(b)) + 1]]
tenth == [k |-> <<1, 0, 1, 1>> \o Repeat(<<0, 0, 1, 1>>, 12), s |-> 55]
twoTenths == [k |-> <<1, 0, 1, 1>> \o Repeat(<<0, 0, 1, 1>>, 12), s |-> 54]
threeTenths == [k |-> <<1>> \o Repeat(<<1, 0, 0, 1>>, 13), s |-> 54]
itemC == [id |-> "c", price |-> tenth, options |-> <<>>]
itemD == [id |-> "d", price |-> twoTenths, options |-> <<>>]
itemE == [id |-> "e", price |-> threeTenths, options |-> <<>>]
TenthsMenu == {itemC, itemD, itemE}

\* the Firestore collection "categories"
Categories == {[id |-> "c1", name |-> "Drinks"]}

\* the option lists the page passes to handlePlaceOrder for an item:
\* [] from the "Add to Cart" button, [option] from an option checkbox
OptionChoices(item) ==
    {<<>>} \cup {<<item.options[i]>> : i \in 1..Len(item.options)}

AllOptionChoices == UNION {OptionChoices(item) : item \in Catalog}

\* what the user can type into the table input, the URL parameter (absent,
\* "?table=" or "?table=5") and the value a previous session left in
\* localStorage
TypedTables == {<<>>, <<" ">>, <<"7">>}
UrlTables == {None, <<>>, <<"5">>}
StoredTables == {None, <<"3">>}

OtherDevice == "device-2"

----------------------------------------------------------------------------
(* Helpers *)

Reverse(s) == [i \in 1..Len(s) |-> s[Len(s) + 1 - i]]

\* how often an order id occurs in a list of orders
Occurrences(list, id) == Cardinality({i \in 1..Len(list) : list[i].id = id})

RemoveAt(s, i) == SubSeq(s, 1, i - 1) \o SubSeq(s, i + 1, Len(s))

Whitespace == {" "}
Digits == {"0", "1", "2", "3", "4", "5", "6", "7", "8", "9"}
DigitValue(c) ==
    CASE c = "0" -> 0 [] c = "1" -> 1 [] c = "2" -> 2 [] c = "3" -> 3
      [] c = "4" -> 4 [] c = "5" -> 5 [] c = "6" -> 6 [] c = "7" -> 7
      [] c = "8" -> 8 [] c = "9" -> 9

\* String.prototype.trim
RECURSIVE TrimStart(_)
TrimStart(s) ==
    IF s # <<>> /\ Head(s) \in Whitespace THEN TrimStart(Tail(s)) ELSE s

trim(s) == Reverse(TrimStart(Reverse(TrimStart(s))))

\* a JavaScript string is truthy unless it is empty
Truthy(s) == s # None /\ s # <<>>

\* parseInt(string): skips leading white space, reads the longest prefix of
\* digits, and yields NaN when there is none
RECURSIVE ParseDigits(_, _, _)
ParseDigits(s, acc, seen) ==
    IF s # <<>> /\ Head(s) \in Digits
    THEN ParseDigits(Tail(s), 10 * acc + DigitValue(Head(s)), TRUE)
    ELSE IF seen THEN [num |-> acc] ELSE NaN

parseInt(s) == ParseDigits(TrimStart(s), 0, FALSE)

\* JSON.stringify of a SelectedOption[]: the sequence of tokens it prints
RECURSIVE StringifyOptions(_)
StringifyOptions(opts) ==
    IF opts = <<>> THEN <<>>
    ELSE <<"{", "id", Head(opts).id, "name", Head(opts).name,
           "price", ToString(Head(opts).price), "}">> \o StringifyOptions(Tail(opts))

JSONstringify(opts) == <<"[">> \o StringifyOptions(opts) \o <<"]">>

\* the test both cart handlers use to recognise a cart line
SameLine(cartItem, id, selectedOptions) ==
    /\ cartItem.id = id
    /\ JSONstringify(cartItem.selectedOptions) = JSONstringify(selectedOptions)

getDeviceId == "device-1"

\* const cartTotal = cart.reduce((total, item) => total + item.price * item.quantity, 0)
cartTotalOf(c) ==
    SumFrom(Num(0), [i \in 1..Len(c) |-> times(c[i].price, c[i].quantity)])

cartTotal == cartTotalOf(cart)

----------------------------------------------------------------------------
(* The Firestore collection "orders" *)

\* an order another device placed before this session
otherOrder(status) ==
    [id |-> 0, deviceId |-> OtherDevice, tableNumber |-> [num |-> 9],
     items |-> <<[id |-> "b", price |-> Num(25), quantity |-> 1,
                  selectedOptions |-> <<>>]>>,
     total |-> Num(25), status |-> status, createdAt |-> 0,
     paymentMethod |-> "cash"]

\* addDoc: the collection with the document added under a fresh id
addDoc(db, order) ==
    Append(db, [id |-> Len(db), deviceId |-> order.deviceId,
                tableNumber |-> order.tableNumber, items |-> order.items,
                total |-> order.total, status |-> order.status,
                createdAt |-> order.createdAt,
                paymentMethod |-> order.paymentMethod])

\* an update that completes the order as well
updateDocSetsStatus(db, id, newTableNumber) ==
    [i \in 1..Len(db) |->
        IF db[i].id = id
        THEN [db[i] EXCEPT !.tableNumber = [str |-> newTableNumber],
                           !.status = "completed"]
        ELSE db[i]]

\* updateDoc(doc.ref, {tableNumber: newTableNumber})
updateDoc(db, id, newTableNumber) ==
    [i \in 1..Len(db) |->
        IF db[i].id = id
        THEN [db[i] EXCEPT !.tableNumber = [str |-> newTableNumber]]
        ELSE db[i]]

\* orderBy("createdAt", "desc")
RECURSIVE orderByCreatedAtDesc(_)
orderByCreatedAtDesc(docs) ==
    IF docs = <<>> THEN <<>>
    ELSE LET m == CHOOSE i \in 1..Len(docs) :
                    \A j \in 1..Len(docs) :
                        \/ docs[j].createdAt < docs[i].createdAt
                        \/ docs[j].createdAt = docs[i].createdAt /\ i <= j
         IN  <<docs[m]>> \o orderByCreatedAtDesc(RemoveAt(docs, m))

\* query(ordersRef, where("deviceId", "==", getDeviceId()), orderBy("createdAt", "desc"))
IsOwn(doc) == doc.deviceId = getDeviceId

ordersQuery(db) == orderByCreatedAtDesc(SelectSeq(db, IsOwn))

\* query(ordersRef, where("deviceId", "==", deviceId), where("status", "==", "pending"))
IsOwnPending(doc) == doc.deviceId = getDeviceId /\ doc.status = "pending"

pendingOrdersQuery(db) == SelectSeq(db, IsOwnPending)

----------------------------------------------------------------------------
(* Initial state: the component as constructed, before its effects run *)

InitWith(catalog, store, stored) ==
    /\ mounted = FALSE
    /\ menuItems = {}
    /\ dbMenuItems = catalog
    /\ categories = {}
    /\ isLoading = TRUE
    /\ loadCall = [pc |-> "idle", categories |-> {}, menuItems |-> {},
                   error |-> "none"]
    /\ isLoadingOrders = TRUE
    /\ subscription = "none"
    /\ unsubscribes = 0
    /\ discarded = FALSE
    /\ cart = <<>>
    /\ isSubmitting = FALSE
    /\ orders = <<>>
    /\ tableNumber = <<>>
    /\ showTableModal = TRUE
    /\ storedTable \in stored
    /\ now = 0
    /\ dbOrders = store
    /\ saveCalls = <<>>
    /\ listener = <<>>
    /\ tableCalls = <<>>
    /\ updateReqs = <<>>
    /\ confirms = 0

\* a first visit: localStorage holds no table number, and the store holds an
\* order of another device that is already completed
Init == InitWith({itemB}, <<otherOrder("completed")>>, {None})

\* the table resolution with a URL parameter that does not reach localStorage
MountKeepsStored(tableFromUrl) ==
    /\ ~mounted
    /\ ~discarded
    /\ mounted' = TRUE
    /\ loadCall' = [loadCall EXCEPT !.pc = "categories"]
    /\ subscription' = "open"
    /\ IF Truthy(tableFromUrl)
       THEN /\ tableNumber' = tableFromUrl
            /\ showTableModal' = FALSE
            /\ UNCHANGED storedTable
       ELSE IF Truthy(storedTable)
       THEN /\ tableNumber' = storedTable
            /\ showTableModal' = FALSE
            /\ UNCHANGED storedTable
       ELSE UNCHANGED <<tableNumber, storedTable, showTableModal>>
    /\ UNCHANGED <<menuItems, cart, isSubmitting, orders, now, dbOrders,
                   saveCalls, listener, tableCalls, updateReqs, confirms,
                   categories, isLoading, dbMenuItems, isLoadingOrders,
                   unsubscribes, discarded>>

\* the two effects of MenuContent: loadInitialData is called and runs up to
\* its first await, the order subscription is opened, and the table number
\* is resolved from the URL parameter or localStorage
Mount(tableFromUrl) ==
    /\ ~mounted
    /\ ~discarded
    /\ mounted' = TRUE
    /\ loadCall' = [loadCall EXCEPT !.pc = "categories"]
    /\ subscription' = "open"
    /\ IF Truthy(tableFromUrl)
       THEN /\ tableNumber' = tableFromUrl
            /\ storedTable' = tableFromUrl
            /\ showTableModal' = FALSE
       ELSE IF Truthy(storedTable)
       THEN /\ tableNumber' = storedTable
            /\ showTableModal' = FALSE
            /\ UNCHANGED storedTable
       ELSE UNCHANGED <<tableNumber, storedTable, showTableModal>>
    /\ UNCHANGED <<menuItems, cart, isSubmitting, orders, now, dbOrders,
                   saveCalls, listener, tableCalls, updateReqs, confirms,
                   categories, isLoading, dbMenuItems, isLoadingOrders,
                   unsubscribes, discarded>>

\* if (isLoading) return <div>Loading...</div>: the handlers of the page can
\* be triggered once the page is rendered
rendered == mounted /\ ~isLoading

----------------------------------------------------------------------------
(* Catalog load: loadInitialData and fetchMenuData *)

\* what every action but the catalog load leaves alone
loadFrame ==
    UNCHANGED <<mounted, cart, isSubmitting, orders, tableNumber, showTableModal,
                storedTable, now, dbOrders, saveCalls, listener, tableCalls,
                updateReqs, confirms, dbMenuItems, viewVars>>

\* fetchMenuData: the categories are read, the second getDocs is called
getCategoriesResolves ==
    /\ loadCall.pc = "categories"
    /\ loadCall' = [loadCall EXCEPT !.pc = "menuItems", !.categories = Categories]
    /\ UNCHANGED <<menuItems, categories, isLoading>>
    /\ loadFrame

\* fetchMenuData: the first getDocs throws; catch returns two empty lists
getCategoriesThrows ==
    /\ loadCall.pc = "categories"
    /\ loadCall' = [pc |-> "returned", categories |-> {}, menuItems |-> {},
                    error |-> "categories"]
    /\ UNCHANGED <<menuItems, categories, isLoading>>
    /\ loadFrame

\* fetchMenuData: the menu items are read; return { categories, menuItems }
getMenuItemsResolves ==
    /\ loadCall.pc = "menuItems"
    /\ loadCall' = [loadCall EXCEPT !.pc = "returned", !.menuItems = dbMenuItems]
    /\ UNCHANGED <<menuItems, categories, isLoading>>
    /\ loadFrame

\* the catch path returning the categories that were read
getMenuItemsThrowsKeepsCategories ==
    /\ loadCall.pc = "menuItems"
    /\ loadCall' = [loadCall EXCEPT !.pc = "returned", !.error = "menuItems"]
    /\ UNCHANGED <<menuItems, categories, isLoading>>
    /\ loadFrame

\* fetchMenuData: the second getDocs throws; catch returns two empty lists
getMenuItemsThrows ==
    /\ loadCall.pc = "menuItems"
    /\ loadCall' = [pc |-> "returned", categories |-> {}, menuItems |-> {},
                    error |-> "menuItems"]
    /\ UNCHANGED <<menuItems, categories, isLoading>>
    /\ loadFrame

\* the error fetchMenuData has caught and logged is kept in loadCall.error

\* loadInitialData after "await fetchMenuData()"
loadInitialDataThen ==
    /\ loadCall.pc = "returned"
    /\ categories' = loadCall.categories
    /\ menuItems' = loadCall.menuItems
    /\ isLoading' = FALSE
    /\ loadCall' = [loadCall EXCEPT !.pc = "done"]
    /\ loadFrame

----------------------------------------------------------------------------
(* Cart reconciler *)

\* placeOrder without the search for an existing line
placeOrderAlwaysAppends(currentCart, item, selectedOptions) ==
    Append(currentCart,
           [id |-> item.id, price |-> item.price, quantity |-> 1,
            selectedOptions |-> selectedOptions])

\* placeOrder incrementing every line of the item, whatever its options
placeOrderIncrementsById(currentCart, item, selectedOptions) ==
    LET matches(cartItem) == SameLine(cartItem, item.id, selectedOptions)
        existingItem == \E i \in 1..Len(currentCart) : matches(currentCart[i])
    IN  IF existingItem
        THEN [i \in 1..Len(currentCart) |->
                IF currentCart[i].id = item.id
                THEN [currentCart[i] EXCEPT !.quantity = @ + 1]
                ELSE currentCart[i]]
        ELSE Append(currentCart,
                    [id |-> item.id, price |-> item.price, quantity |-> 1,
                     selectedOptions |-> selectedOptions])

\* placeOrder recognising a line by the item id alone
placeOrderFindsById(currentCart, item, selectedOptions) ==
    LET matches(cartItem) == cartItem.id = item.id
        existingItem == \E i \in 1..Len(currentCart) : matches(currentCart[i])
    IN  IF existingItem
        THEN [i \in 1..Len(currentCart) |->
                IF matches(currentCart[i])
                THEN [currentCart[i] EXCEPT !.quantity = @ + 1]
                ELSE currentCart[i]]
        ELSE Append(currentCart,
                    [id |-> item.id, price |-> item.price, quantity |-> 1,
                     selectedOptions |-> selectedOptions])

\* the updater handlePlaceOrder passes to setCart
placeOrder(currentCart, item, selectedOptions) ==
    LET matches(cartItem) == SameLine(cartItem, item.id, selectedOptions)
        existingItem == \E i \in 1..Len(currentCart) : matches(currentCart[i])
    IN  IF existingItem
        THEN [i \in 1..Len(currentCart) |->
                IF matches(currentCart[i])
                THEN [currentCart[i] EXCEPT !.quantity = @ + 1]
                ELSE currentCart[i]]
        ELSE Append(currentCart,
                    [id |-> item.id, price |-> item.price, quantity |-> 1,
                     selectedOptions |-> selectedOptions])

\* updateQuantity removing every line of the item, whatever its options
updateQuantityRemovesById(currentCart, itemId, newQuantity, selectedOptions) ==
    LET matches(item) == SameLine(item, itemId, selectedOptions)
        keep(item) == item.id # itemId
    IN  IF newQuantity < 1
        THEN SelectSeq(currentCart, keep)
        ELSE [i \in 1..Len(currentCart) |->
                IF matches(currentCart[i])
                THEN [currentCart[i] EXCEPT !.quantity = newQuantity]
                ELSE currentCart[i]]

\* the updater with the guard newQuantity < 0: a quantity of 0 is stored
updateQuantityStoresZero(currentCart, itemId, newQuantity, selectedOptions) ==
    LET matches(item) == SameLine(item, itemId, selectedOptions)
        keep(item) == ~matches(item)
    IN  IF newQuantity < 0
        THEN SelectSeq(currentCart, keep)
        ELSE [i \in 1..Len(currentCart) |->
                IF matches(currentCart[i])
                THEN [currentCart[i] EXCEPT !.quantity = newQuantity]
                ELSE currentCart[i]]

\* the updater setting the quantity of every line of the item
updateQuantitySetsById(currentCart, itemId, newQuantity, selectedOptions) ==
    LET matches(item) == SameLine(item, itemId, selectedOptions)
        keep(item) == ~matches(item)
    IN  IF newQuantity < 1
        THEN SelectSeq(currentCart, keep)
        ELSE [i \in 1..Len(currentCart) |->
                IF currentCart[i].id = itemId
                THEN [currentCart[i] EXCEPT !.quantity = newQuantity]
                ELSE currentCart[i]]

\* the updater handleUpdateQuantity passes to setCart
updateQuantity(currentCart, itemId, newQuantity, selectedOptions) ==
    LET matches(item) == SameLine(item, itemId, selectedOptions)
        keep(item) == ~matches(item)
    IN  IF newQuantity < 1
        THEN SelectSeq(currentCart, keep)
        ELSE [i \in 1..Len(currentCart) |->
                IF matches(currentCart[i])
                THEN [currentCart[i] EXCEPT !.quantity = newQuantity]
                ELSE currentCart[i]]

handlePlaceOrder(item, selectedOptions) ==
    /\ rendered
    /\ cart' = placeOrder(cart, item, selectedOptions)
    /\ \A i \in 1..Len(cart') : cart'[i].quantity <= MaxQty
    /\ UNCHANGED <<mounted, menuItems, isSubmitting, orders, tableNumber, showTableModal,
                   storedTable, now, dbOrders, saveCalls, listener,
                   tableCalls, updateReqs, confirms>>
    /\ UNCHANGED <<loadVars, viewVars>>

handleUpdateQuantity(itemId, newQuantity, selectedOptions) ==
    /\ rendered
    /\ cart' = updateQuantity(cart, itemId, newQuantity, selectedOptions)
    /\ UNCHANGED <<mounted, menuItems, isSubmitting, orders, tableNumber, showTableModal,
                   storedTable, now, dbOrders, saveCalls, listener,
                   tableCalls, updateReqs, confirms>>
    /\ UNCHANGED <<loadVars, viewVars>>

----------------------------------------------------------------------------
(* Order submission *)

\* the guard without the isSubmitting test
orderNowIgnoresSubmitting ==
    Len(cart) = 0 \/ ~Truthy(tableNumber)

\* the guard without the cart.length test
orderNowIgnoresEmptyCart ==
    isSubmitting \/ ~Truthy(tableNumber)

\* if (cart.length === 0 || isSubmitting || !tableNumber) return;
orderNowReturnsEarly ==
    Len(cart) = 0 \/ isSubmitting \/ ~Truthy(tableNumber)

\* the Order with the table number as it was typed
buildOrderRawTable ==
    [deviceId |-> getDeviceId, tableNumber |-> [str |-> tableNumber],
     items |-> cart, total |-> cartTotal, status |-> "pending",
     createdAt |-> now + 1, paymentMethod |-> "cash"]

\* the Order handleOrderNow builds from the state it was called in
buildOrder ==
    [deviceId |-> getDeviceId, tableNumber |-> parseInt(tableNumber),
     items |-> cart, total |-> cartTotal, status |-> "pending",
     createdAt |-> now + 1, paymentMethod |-> "cash"]

\* mergeOrder without the orderExists test
mergeOrderAlways(prevOrders, newOrder, orderId) ==
    <<[id |-> orderId, deviceId |-> newOrder.deviceId,
       tableNumber |-> newOrder.tableNumber, items |-> newOrder.items,
       total |-> newOrder.total, status |-> newOrder.status,
       createdAt |-> newOrder.createdAt,
       paymentMethod |-> newOrder.paymentMethod]>> \o prevOrders

\* the updater handleOrderNow passes to setOrders once saveOrder has resolved
mergeOrder(prevOrders, newOrder, orderId) ==
    LET orderExists == \E i \in 1..Len(prevOrders) : prevOrders[i].id = orderId
    IN  IF orderExists
        THEN prevOrders
        ELSE <<[id |-> orderId, deviceId |-> newOrder.deviceId,
                tableNumber |-> newOrder.tableNumber, items |-> newOrder.items,
                total |-> newOrder.total, status |-> newOrder.status,
                createdAt |-> newOrder.createdAt,
                paymentMethod |-> newOrder.paymentMethod]>> \o prevOrders

\* handleOrderNow up to "await saveOrder(newOrder)"
handleOrderNow ==
    /\ rendered
    /\ IF orderNowReturnsEarly
       THEN UNCHANGED <<isSubmitting, now, saveCalls>>
       ELSE /\ now < MaxSubmits
            /\ isSubmitting' = TRUE
            /\ now' = now + 1
            /\ saveCalls' = Append(saveCalls,
                    [pc |-> "addDoc", newOrder |-> buildOrder, orderId |-> -1])
    /\ UNCHANGED <<mounted, menuItems, cart, orders, tableNumber, showTableModal,
                   storedTable, dbOrders, listener, tableCalls, updateReqs, confirms>>
    /\ UNCHANGED <<loadVars, viewVars>>

\* saveOrder: the store accepts the document and answers with its id
saveOrderResolves(c) ==
    /\ saveCalls[c].pc = "addDoc"
    /\ Len(SelectSeq(dbOrders, IsOwn)) < MaxOrders
    /\ dbOrders' = addDoc(dbOrders, saveCalls[c].newOrder)
    /\ saveCalls' = [saveCalls EXCEPT ![c].pc = "resolved",
                                      ![c].orderId = Len(dbOrders)]
    /\ UNCHANGED <<mounted, menuItems, cart, isSubmitting, orders, tableNumber,
                   showTableModal, storedTable, now, listener, tableCalls,
                   updateReqs, confirms>>
    /\ UNCHANGED <<loadVars, viewVars>>

\* saveOrder: addDoc fails, the error is logged and thrown again
saveOrderThrows(c) ==
    /\ saveCalls[c].pc = "addDoc"
    /\ saveCalls' = [saveCalls EXCEPT ![c].pc = "rejected"]
    /\ UNCHANGED <<mounted, menuItems, cart, isSubmitting, orders, tableNumber,
                   showTableModal, storedTable, now, dbOrders, listener,
                   tableCalls, updateReqs, confirms>>
    /\ UNCHANGED <<loadVars, viewVars>>

\* handleOrderNow after the await: setOrders, setCart([]), finally
handleOrderNowThen(c) ==
    /\ saveCalls[c].pc = "resolved"
    /\ orders' = mergeOrder(orders, saveCalls[c].newOrder, saveCalls[c].orderId)
    /\ cart' = <<>>
    /\ isSubmitting' = FALSE
    /\ saveCalls' = RemoveAt(saveCalls, c)
    /\ UNCHANGED <<mounted, menuItems, tableNumber, showTableModal, storedTable, now,
                   dbOrders, listener, tableCalls, updateReqs, confirms>>
    /\ UNCHANGED <<loadVars, viewVars>>

\* the catch path clearing the cart as the success path does
handleOrderNowCatchClearsCart(c) ==
    /\ saveCalls[c].pc = "rejected"
    /\ cart' = <<>>
    /\ isSubmitting' = FALSE
    /\ saveCalls' = RemoveAt(saveCalls, c)
    /\ UNCHANGED <<mounted, menuItems, orders, tableNumber, showTableModal,
                   storedTable, now, dbOrders, listener, tableCalls,
                   updateReqs, confirms>>
    /\ UNCHANGED <<loadVars, viewVars>>

\* handleOrderNow after the await: catch, finally
handleOrderNowCatch(c) ==
    /\ saveCalls[c].pc = "rejected"
    /\ isSubmitting' = FALSE
    /\ saveCalls' = RemoveAt(saveCalls, c)
    /\ UNCHANGED <<mounted, menuItems, cart, orders, tableNumber,
                   showTableModal, storedTable, now, dbOrders, listener,
                   tableCalls, updateReqs, confirms>>
    /\ UNCHANGED <<loadVars, viewVars>>

----------------------------------------------------------------------------
(* Order subscription *)

\* the store emits the current result of ordersQuery to the listener
EmitSnapshot ==
    /\ subscription = "open"
    /\ Len(listener) < MaxInFlight
    /\ listener' = Append(listener, ordersQuery(dbOrders))
    /\ UNCHANGED <<mounted, menuItems, cart, isSubmitting, orders, tableNumber,
                   showTableModal, storedTable, now, dbOrders, saveCalls,
                   tableCalls, updateReqs, confirms>>
    /\ UNCHANGED <<loadVars, viewVars>>

\* a callback that keeps the local orders the snapshot does not hold
onSnapshotKeepsLocal ==
    /\ listener # <<>>
    /\ LET InSnapshot(o) == \E i \in 1..Len(Head(listener)) :
                                Head(listener)[i].id = o.id
           Missing(o) == ~InSnapshot(o)
       IN  orders' = SelectSeq(orders, Missing) \o Head(listener)
    /\ listener' = Tail(listener)
    /\ UNCHANGED <<mounted, menuItems, cart, isSubmitting, tableNumber, showTableModal,
                   storedTable, now, dbOrders, saveCalls, tableCalls,
                   updateReqs, confirms>>
    /\ isLoadingOrders' = FALSE
    /\ UNCHANGED <<loadVars, subscription, unsubscribes, discarded>>

\* the onSnapshot callback: setOrders(updatedOrders)
onSnapshot ==
    /\ listener # <<>>
    /\ orders' = Head(listener)
    /\ listener' = Tail(listener)
    /\ UNCHANGED <<mounted, menuItems, cart, isSubmitting, tableNumber, showTableModal,
                   storedTable, now, dbOrders, saveCalls, tableCalls,
                   updateReqs, confirms>>
    /\ isLoadingOrders' = FALSE
    /\ UNCHANGED <<loadVars, subscription, unsubscribes, discarded>>

\* the error callback of onSnapshot: the listener has failed and gets no
\* further event
onSnapshotError ==
    /\ subscription = "open"
    /\ isLoadingOrders' = FALSE
    /\ subscription' = "failed"
    /\ listener' = <<>>
    /\ UNCHANGED <<mounted, menuItems, cart, isSubmitting, orders, tableNumber,
                   showTableModal, storedTable, now, dbOrders, saveCalls,
                   tableCalls, updateReqs, confirms>>
    /\ UNCHANGED <<loadVars, unsubscribes, discarded>>

\* a cleanup that does not call unsubscribe
UnmountKeepsListener ==
    /\ mounted
    /\ loadCall.pc = "done" /\ saveCalls = <<>> /\ tableCalls = <<>>
    /\ mounted' = FALSE
    /\ discarded' = TRUE
    /\ UNCHANGED <<menuItems, cart, isSubmitting, orders, tableNumber,
                   showTableModal, storedTable, now, dbOrders, saveCalls, listener,
                   tableCalls, updateReqs, confirms>>
    /\ UNCHANGED <<loadVars, isLoadingOrders, subscription, unsubscribes>>

\* the view is discarded: the cleanup of the first effect calls unsubscribe(),
\* after which the listener is not called again.  The view is discarded
\* while none of its handlers is suspended: what a handler sets when it
\* resumes on a discarded view, React drops.
Unmount ==
    /\ mounted
    /\ loadCall.pc = "done" /\ saveCalls = <<>> /\ tableCalls = <<>>
    /\ mounted' = FALSE
    /\ discarded' = TRUE
    /\ subscription' = "closed"
    /\ unsubscribes' = unsubscribes + 1
    /\ listener' = <<>>
    /\ UNCHANGED <<menuItems, cart, isSubmitting, orders, tableNumber,
                   showTableModal, storedTable, now, dbOrders, saveCalls,
                   tableCalls, updateReqs, confirms>>
    /\ UNCHANGED <<loadVars, isLoadingOrders>>

\* OrderHistory.handlePaymentSubmit for an order of the list: it logs
handlePaymentSubmit(order) ==
    /\ rendered
    /\ UNCHANGED vars

\* out of band: staff complete or cancel a pending order
StaffSetsStatus(i, status) ==
    /\ dbOrders[i].status = "pending"
    /\ dbOrders' = [dbOrders EXCEPT ![i].status = status]
    /\ UNCHANGED <<mounted, menuItems, cart, isSubmitting, orders, tableNumber,
                   showTableModal, storedTable, now, saveCalls, listener,
                   tableCalls, updateReqs, confirms>>
    /\ UNCHANGED <<loadVars, viewVars>>

----------------------------------------------------------------------------
(* Table assignment *)

\* the table input of the modal: onChange={(e) => setTableNumber(e.target.value)}
onChangeTable(value) ==
    /\ rendered
    /\ showTableModal
    /\ tableNumber' = value
    /\ UNCHANGED <<mounted, menuItems, cart, isSubmitting, orders, showTableModal,
                   storedTable, now, dbOrders, saveCalls, listener,
                   tableCalls, updateReqs, confirms>>
    /\ UNCHANGED <<loadVars, viewVars>>

\* the edit button, rendered only for a truthy tableNumber
handleTableNumberClick ==
    /\ rendered
    /\ Truthy(tableNumber)
    /\ showTableModal' = TRUE
    /\ UNCHANGED <<mounted, menuItems, cart, isSubmitting, orders, tableNumber,
                   storedTable, now, dbOrders, saveCalls, listener,
                   tableCalls, updateReqs, confirms>>
    /\ UNCHANGED <<loadVars, viewVars>>

\* snapshot.docs.map((doc) => updateDoc(doc.ref, {tableNumber: newTableNumber}))
updatePromises(docs, call, newTableNumber) ==
    [i \in 1..Len(docs) |->
        [call |-> call, id |-> docs[i].id, tableNumber |-> newTableNumber]]

\* a confirm that leaves localStorage for after the store update
handleTableNumberSubmitStoresLater ==
    /\ rendered
    /\ showTableModal
    /\ IF trim(tableNumber) = <<>>
       THEN UNCHANGED <<tableCalls, confirms>>
       ELSE /\ confirms < MaxConfirms
            /\ confirms' = confirms + 1
            /\ tableCalls' = Append(tableCalls,
                    [call |-> confirms + 1, pc |-> "getDocs",
                     newTableNumber |-> tableNumber, waiting |-> 0,
                     failed |-> FALSE])
    /\ UNCHANGED <<mounted, menuItems, cart, isSubmitting, orders, tableNumber,
                   showTableModal, storedTable, now, dbOrders, saveCalls,
                   listener, updateReqs>>
    /\ UNCHANGED <<loadVars, viewVars>>

\* handleTableNumberSubmit up to "await getDocs(pendingOrdersQuery)"
handleTableNumberSubmit ==
    /\ rendered
    /\ showTableModal
    /\ IF trim(tableNumber) = <<>>
       THEN UNCHANGED <<storedTable, tableCalls, confirms>>
       ELSE /\ confirms < MaxConfirms
            /\ storedTable' = tableNumber
            /\ confirms' = confirms + 1
            /\ tableCalls' = Append(tableCalls,
                    [call |-> confirms + 1, pc |-> "getDocs",
                     newTableNumber |-> tableNumber, waiting |-> 0,
                     failed |-> FALSE])
    /\ UNCHANGED <<mounted, menuItems, cart, isSubmitting, orders, tableNumber,
                   showTableModal, now, dbOrders, saveCalls, listener,
                   updateReqs>>
    /\ UNCHANGED <<loadVars, viewVars>>

\* updateTableNumberInFirestore: getDocs answers and one updateDoc is sent
\* for every document of the answer
getDocsResolves(c) ==
    /\ tableCalls[c].pc = "getDocs"
    /\ LET docs == pendingOrdersQuery(dbOrders)
           sent == updatePromises(docs, tableCalls[c].call,
                                  tableCalls[c].newTableNumber)
       IN  /\ updateReqs' = updateReqs \o sent
           /\ tableCalls' = [tableCalls EXCEPT ![c].pc = "Promise.all",
                                               ![c].waiting = Len(sent)]
    /\ UNCHANGED <<mounted, menuItems, cart, isSubmitting, orders, tableNumber,
                   showTableModal, storedTable, now, dbOrders, saveCalls,
                   listener, confirms>>
    /\ UNCHANGED <<loadVars, viewVars>>

\* updateTableNumberInFirestore: getDocs fails
getDocsThrows(c) ==
    /\ tableCalls[c].pc = "getDocs"
    /\ tableCalls' = [tableCalls EXCEPT ![c].pc = "Promise.all",
                                        ![c].failed = TRUE]
    /\ UNCHANGED <<mounted, menuItems, cart, isSubmitting, orders, tableNumber,
                   showTableModal, storedTable, now, dbOrders, saveCalls,
                   listener, updateReqs, confirms>>
    /\ UNCHANGED <<loadVars, viewVars>>

\* the promise of request r settles: Promise.all of its call, if the call is
\* still waiting, counts it
settle(calls, r, ok) ==
    [i \in 1..Len(calls) |->
        IF calls[i].call = updateReqs[r].call
        THEN [calls[i] EXCEPT !.waiting = @ - 1,
                              !.failed = @ \/ ~ok]
        ELSE calls[i]]

\* the store applies updateDoc request r
updateDocResolves(r) ==
    /\ dbOrders' = updateDoc(dbOrders, updateReqs[r].id, updateReqs[r].tableNumber)
    /\ tableCalls' = settle(tableCalls, r, TRUE)
    /\ updateReqs' = RemoveAt(updateReqs, r)
    /\ UNCHANGED <<mounted, menuItems, cart, isSubmitting, orders, tableNumber,
                   showTableModal, storedTable, now, saveCalls, listener,
                   confirms>>
    /\ UNCHANGED <<loadVars, viewVars>>

\* the store rejects updateDoc request r
updateDocThrows(r) ==
    /\ tableCalls' = settle(tableCalls, r, FALSE)
    /\ updateReqs' = RemoveAt(updateReqs, r)
    /\ UNCHANGED <<mounted, menuItems, cart, isSubmitting, orders, tableNumber,
                   showTableModal, storedTable, now, dbOrders, saveCalls,
                   listener, confirms>>
    /\ UNCHANGED <<loadVars, viewVars>>

\* handleTableNumberSubmit after the await: every update succeeded
handleTableNumberSubmitThen(c) ==
    /\ tableCalls[c].pc = "Promise.all"
    /\ ~tableCalls[c].failed
    /\ tableCalls[c].waiting = 0
    /\ showTableModal' = FALSE
    /\ tableCalls' = RemoveAt(tableCalls, c)
    /\ UNCHANGED <<mounted, menuItems, cart, isSubmitting, orders, tableNumber,
                   storedTable, now, dbOrders, saveCalls, listener,
                   updateReqs, confirms>>
    /\ UNCHANGED <<loadVars, viewVars>>

\* the catch path closing the modal as the success path does
handleTableNumberSubmitCatchCloses(c) ==
    /\ tableCalls[c].pc = "Promise.all"
    /\ tableCalls[c].failed
    /\ showTableModal' = FALSE
    /\ tableCalls' = RemoveAt(tableCalls, c)
    /\ UNCHANGED <<mounted, menuItems, cart, isSubmitting, orders, tableNumber,
                   storedTable, now, dbOrders, saveCalls,
                   listener, updateReqs, confirms>>
    /\ UNCHANGED <<loadVars, viewVars>>

\* handleTableNumberSubmit after the await: the query or an update failed;
\* the updates still in flight are not cancelled
handleTableNumberSubmitCatch(c) ==
    /\ tableCalls[c].pc = "Promise.all"
    /\ tableCalls[c].failed
    /\ tableCalls' = RemoveAt(tableCalls, c)
    /\ UNCHANGED <<mounted, menuItems, cart, isSubmitting, orders, tableNumber,
                   showTableModal, storedTable, now, dbOrders, saveCalls,
                   listener, updateReqs, confirms>>
    /\ UNCHANGED <<loadVars, viewVars>>

----------------------------------------------------------------------------
(* Specification *)

CartActions ==
    \/ \E item \in menuItems : \E selectedOptions \in OptionChoices(item) :
            handlePlaceOrder(item, selectedOptions)
    \/ \E item \in Catalog : \E newQuantity \in -1..MaxQty :
       \E selectedOptions \in AllOptionChoices :
            handleUpdateQuantity(item.id, newQuantity, selectedOptions)

SubmitActions ==
    \/ handleOrderNow
    \/ \E c \in 1..Len(saveCalls) : saveOrderResolves(c)
    \/ \E c \in 1..Len(saveCalls) : saveOrderThrows(c)
    \/ \E c \in 1..Len(saveCalls) : handleOrderNowThen(c)
    \/ \E c \in 1..Len(saveCalls) : handleOrderNowCatch(c)

SubscriptionActions ==
    \/ EmitSnapshot
    \/ onSnapshot

StaffActions ==
    \E i \in 1..Len(dbOrders) : \E status \in {"completed", "cancelled"} :
        StaffSetsStatus(i, status)

TableInputActions ==
    \/ \E value \in TypedTables : onChangeTable(value)
    \/ handleTableNumberClick

TableConfirmActions ==
    \/ handleTableNumberSubmit
    \/ \E c \in 1..Len(tableCalls) : getDocsResolves(c)
    \/ \E c \in 1..Len(tableCalls) : getDocsThrows(c)
    \/ \E r \in 1..Len(updateReqs) : updateDocResolves(r)
    \/ \E r \in 1..Len(updateReqs) : updateDocThrows(r)
    \/ \E c \in 1..Len(tableCalls) : handleTableNumberSubmitThen(c)
    \/ \E c \in 1..Len(tableCalls) : handleTableNumberSubmitCatch(c)

MountAction == \E tableFromUrl \in UrlTables : Mount(tableFromUrl)

LoadActions ==
    \/ getCategoriesResolves
    \/ getCategoriesThrows
    \/ getMenuItemsResolves
    \/ getMenuItemsThrows
    \/ loadInitialDataThen

\* the catalog load with both reads answered
LoadSucceeds ==
    \/ getCategoriesResolves
    \/ getMenuItemsResolves
    \/ loadInitialDataThen

PaymentActions ==
    \E i \in 1..Len(orders) : handlePaymentSubmit(orders[i])

\* the whole page
Next ==
    \/ MountAction
    \/ LoadActions
    \/ onSnapshotError
    \/ Unmount
    \/ PaymentActions
    \/ CartActions
    \/ SubmitActions
    \/ SubscriptionActions
    \/ StaffActions
    \/ TableInputActions
    \/ TableConfirmActions

Spec == Init /\ [][Next]_vars

\* The cart reconciler with the full catalog.  The cart is written by the
\* cart handlers and by the submission only; the steps left out write none
\* of the variables these steps read, except tableNumber, which handleOrderNow
\* reads and Mount sets or leaves unset.  One submission is followed, of a
\* cart of one line: the cart handlers read the cart only, and when the
\* submission has ended the cart is empty, as at the start, or what it would
\* be without the submission.
InitCart == InitWith(Catalog, <<otherOrder("completed")>>, {None})

FirstSubmitActions ==
    \/ now = 0 /\ Len(cart) = 1 /\ handleOrderNow
    \/ \E c \in 1..Len(saveCalls) : saveOrderResolves(c)
    \/ \E c \in 1..Len(saveCalls) : saveOrderThrows(c)
    \/ \E c \in 1..Len(saveCalls) : handleOrderNowThen(c)
    \/ \E c \in 1..Len(saveCalls) : handleOrderNowCatch(c)

NextCart ==
    \/ MountAction
    \/ LoadSucceeds
    \/ CartActions
    \/ FirstSubmitActions

SpecCart == InitCart /\ [][NextCart]_vars

\* Submission against the live subscription, with a catalog of one item.
\* Left out are the table input and confirmation: the table number is the
\* one Mount resolved, and the store writes of a confirmation change the
\* tableNumber field of documents only.  The cart holds one unit or nothing:
\* the submission reads whether the cart is empty and copies its lines.
OneUnitCartActions ==
    \/ \E item \in menuItems : cart = <<>> /\ handlePlaceOrder(item, <<>>)
    \/ \E item \in menuItems : handleUpdateQuantity(item.id, 0, <<>>)

NextOrders ==
    \/ MountAction
    \/ LoadSucceeds
    \/ OneUnitCartActions
    \/ SubmitActions
    \/ SubscriptionActions
    \/ StaffActions

SpecOrders == Init /\ [][NextOrders]_vars

\* Table confirmation against a store that holds two pending orders of this
\* device from an earlier visit.  Left out are the cart and the submission,
\* which add documents and change none.
ownOrder(id) ==
    [id |-> id, deviceId |-> getDeviceId, tableNumber |-> [num |-> 3],
     items |-> <<[id |-> "b", price |-> Num(25), quantity |-> 1,
                  selectedOptions |-> <<>>]>>,
     total |-> Num(25), status |-> "pending", createdAt |-> 0,
     paymentMethod |-> "cash"]

InitTable ==
    InitWith({itemB}, <<otherOrder("pending"), ownOrder(1), ownOrder(2)>>,
             StoredTables)

NextTable ==
    \/ MountAction
    \/ LoadSucceeds
    \/ StaffActions
    \/ TableInputActions
    \/ TableConfirmActions

SpecTable == InitTable /\ [][NextTable]_vars

\* the cart handlers on the items of the loaded menu
MenuCartActions ==
    \/ \E item \in menuItems : \E selectedOptions \in OptionChoices(item) :
            handlePlaceOrder(item, selectedOptions)
    \/ \E item \in menuItems : \E newQuantity \in 0..MaxQty :
            handleUpdateQuantity(item.id, newQuantity, <<>>)

\* The catalog load, with either read failing, and the cart on what was
\* loaded.  Every getDocs is answered or fails, and a handler that can
\* resume does.
InitLoad == InitWith(Catalog, <<otherOrder("completed")>>, {None})

NextLoad ==
    \/ MountAction
    \/ LoadActions
    \/ MenuCartActions

SpecLoad == InitLoad /\ [][NextLoad]_vars /\ WF_vars(LoadActions)

\* The cart reconciler and the total on a menu priced in tenths.
InitTotal == InitWith(TenthsMenu, <<otherOrder("completed")>>, {None})

NextTotal ==
    \/ MountAction
    \/ LoadSucceeds
    \/ MenuCartActions

SpecTotal == InitTotal /\ [][NextTotal]_vars

\* Every write the client sends to the store: submission, table confirmation
\* and the payment step, with staff changing statuses out of band.  Left out
\* is the subscription, which reads the store and writes the local list
\* only, and the typing into the table input: the table number confirmed is
\* the one of the URL, confirmed again after the edit button.
InitStore == InitWith({itemB}, <<otherOrder("completed")>>, {None})

NextStore ==
    \/ MountAction
    \/ LoadSucceeds
    \/ OneUnitCartActions
    \/ SubmitActions
    \/ StaffActions
    \/ handleTableNumberClick
    \/ TableConfirmActions
    \/ PaymentActions

SpecStore == InitStore /\ [][NextStore]_vars

\* The life of the view and of its subscription, against a store that holds
\* a pending order of this device whose status staff change.  Left out are
\* the handlers of the page: the view is discarded while none is suspended.
InitView == InitWith({itemB}, <<otherOrder("completed"), ownOrder(1)>>, {None})

NextView ==
    \/ MountAction
    \/ LoadSucceeds
    \/ SubscriptionActions
    \/ onSnapshotError
    \/ StaffActions
    \/ Unmount

SpecView == InitView /\ [][NextView]_vars

----------------------------------------------------------------------------
(* Properties *)

\* the documents of this device the store holds
OwnDocs == SelectSeq(dbOrders, IsOwn)

\* no order id occurs twice in the local order list
NoDuplicateOrders ==
    \A i, j \in 1..Len(orders) : orders[i].id = orders[j].id => i = j

\* call c has resumed in this step: only the continuations of
\* handleOrderNow take a call out of saveCalls
Resumed(c) ==
    /\ c \in 1..Len(saveCalls)
    /\ saveCalls' = RemoveAt(saveCalls, c)

\* C1: when handleOrderNow resumes after saveOrder has resolved, the cart is
\* empty and the new order is in the local order list exactly once, whether
\* or not a snapshot delivered it before; and no delivery of a snapshot, before
\* or after, makes an order occur twice in the list.
C1_SubmittedOnce ==
    /\ []NoDuplicateOrders
    /\ [][\A c \in 1..Len(saveCalls) :
            Resumed(c) /\ saveCalls[c].pc = "resolved" =>
                /\ cart' = <<>>
                /\ Occurrences(orders', saveCalls[c].orderId) = 1]_vars

\* the submission has ended, the order is in the list once, and what the list
\* holds is the document as the subscription delivered it, completed by staff
C1_Witness ==
    /\ saveCalls = <<>>
    /\ ~isSubmitting
    /\ cart = <<>>
    /\ Len(OwnDocs) = 1
    /\ Occurrences(orders, OwnDocs[1].id) = 1
    /\ orders[1].status = "completed"

\* C2: at most one saveOrder write is in flight, it is in flight only while
\* isSubmitting is set, a submit trigger while isSubmitting is set changes
\* nothing, and a write is issued only when no other is in flight, so that
\* the cart of a persisted order has been cleared before the next write.
C2_SingleFlight ==
    /\ [](Len(saveCalls) <= 1 /\ (Len(saveCalls) = 1 => isSubmitting))
    /\ [][/\ (handleOrderNow /\ isSubmitting => UNCHANGED vars)
          /\ (Len(saveCalls') > Len(saveCalls) =>
                saveCalls = <<>> /\ ~isSubmitting)]_vars

\* the store has answered, handleOrderNow has not resumed, and nothing but
\* the flag keeps a submit trigger from issuing a second write
C2_Witness ==
    /\ isSubmitting
    /\ Len(saveCalls) = 1
    /\ saveCalls[1].pc = "resolved"
    /\ cart # <<>>
    /\ Truthy(tableNumber)
    /\ now < MaxSubmits

\* C3: when saveOrder has thrown, handleOrderNow leaves the cart, the local
\* order list and the store as they are and resets isSubmitting.
C3_FailureKeepsCart ==
    [][\A c \in 1..Len(saveCalls) :
        Resumed(c) /\ saveCalls[c].pc = "rejected" =>
            /\ cart' = cart
            /\ orders' = orders
            /\ dbOrders' = dbOrders
            /\ isSubmitting
            /\ ~isSubmitting']_vars

\* a submission was started and has ended, the store holds no order of this
\* device, and the cart is still there to be submitted again
C3_Witness ==
    /\ now = 1
    /\ saveCalls = <<>>
    /\ OwnDocs = <<>>
    /\ cart # <<>>
    /\ ~isSubmitting
    /\ orders = <<>>

\* C4: a submit trigger with an empty cart or an empty table number changes
\* nothing, and no store write is ever issued from such a state.
C4_EmptySubmitNoOp ==
    [][/\ (handleOrderNow /\ (Len(cart) = 0 \/ tableNumber = <<>>) =>
                UNCHANGED vars)
       /\ (Len(saveCalls') > Len(saveCalls) =>
                Len(cart) # 0 /\ tableNumber # <<>>)]_vars

\* the page is up with a table number, an empty cart and no submission in
\* progress: the empty cart alone stops a submit trigger
C4_Witness ==
    /\ rendered
    /\ cart = <<>>
    /\ Truthy(tableNumber)
    /\ ~isSubmitting
    /\ saveCalls = <<>>
    /\ now < MaxSubmits

\* the total of section 3 of the specification
lineTotal(line) ==
    times(SumFrom(line.price, [k \in 1..Len(line.selectedOptions) |->
                                line.selectedOptions[k].price]),
          line.quantity)

totalWithOptions(c) == SumFrom(Num(0), [i \in 1..Len(c) |-> lineTotal(c[i])])

\* C5: the cart total is the sum over the cart lines of (price + prices of
\* the selected options) * quantity, and so is the total of every order
\* this device has persisted.
C5_TotalCountsOptions ==
    /\ cartTotal = totalWithOptions(cart)
    /\ \A i \in 1..Len(OwnDocs) :
            OwnDocs[i].total = totalWithOptions(OwnDocs[i].items)

\* C6: no two lines of the cart have the same item id and the same
\* serialized selectedOptions.
C6_UniqueKeys ==
    \A i, j \in 1..Len(cart) :
        SameLine(cart[i], cart[j].id, cart[j].selectedOptions) => i = j

\* after a submission has cleared the cart: two lines of one item again
C6_Witness ==
    /\ now = 1
    /\ saveCalls = <<>>
    /\ Len(OwnDocs) = 1
    /\ Len(cart) = 2
    /\ cart[1].id = cart[2].id
    /\ cart[1].quantity = 2

\* C7: handlePlaceOrder for an item and option list that a cart line has
\* adds 1 to the quantity of that line and leaves the number of lines, their
\* order and every other line as they are.
C7_AddIncrements ==
    [][\A item \in Catalog : \A selectedOptions \in OptionChoices(item) :
        (/\ handlePlaceOrder(item, selectedOptions)
         /\ \E i \in 1..Len(cart) : SameLine(cart[i], item.id, selectedOptions))
        => /\ Len(cart') = Len(cart)
           /\ \A i \in 1..Len(cart) :
                IF cart[i].id = item.id
                   /\ cart[i].selectedOptions = selectedOptions
                THEN cart'[i] = [cart[i] EXCEPT !.quantity = @ + 1]
                ELSE cart'[i] = cart[i]]_vars

\* the cart the submission in flight was started with
Submitted == saveCalls[1].newOrder.items

\* since the submission in flight was started with one line of one unit, a
\* second line of the same item has been appended and the first line has
\* been added once more, in its place
C7_Witness ==
    /\ Len(saveCalls) = 1
    /\ Len(Submitted) = 1
    /\ Submitted[1].quantity = 1
    /\ Len(cart) = 2
    /\ cart[1] = [Submitted[1] EXCEPT !.quantity = 2]
    /\ cart[2].id = cart[1].id
    /\ cart[2].quantity = 1

\* C8: handlePlaceOrder for an item the cart holds with other options only
\* appends a line of quantity 1 and leaves the lines before it as they are.
C8_AddAppends ==
    [][\A item \in Catalog : \A selectedOptions \in OptionChoices(item) :
        (/\ handlePlaceOrder(item, selectedOptions)
         /\ \E i \in 1..Len(cart) : cart[i].id = item.id
         /\ \A i \in 1..Len(cart) :
                cart[i].id = item.id
                    => cart[i].selectedOptions # selectedOptions)
        => /\ Len(cart') = Len(cart) + 1
           /\ SubSeq(cart', 1, Len(cart)) = cart
           /\ cart'[Len(cart')].id = item.id
           /\ cart'[Len(cart')].selectedOptions = selectedOptions
           /\ cart'[Len(cart')].quantity = 1]_vars

\* since the submission in flight was started with one line, a line of the
\* same item with other options has been appended
C8_Witness ==
    /\ Len(saveCalls) = 1
    /\ Len(Submitted) = 1
    /\ Len(cart) = 2
    /\ cart[1] = Submitted[1]
    /\ cart[2].id = cart[1].id
    /\ cart[2].selectedOptions # cart[1].selectedOptions
    /\ cart[2].quantity = 1

\* the positions of the lines with the given item id and options
LinesOf(c, itemId, selectedOptions) ==
    {i \in 1..Len(c) :
        c[i].id = itemId /\ c[i].selectedOptions = selectedOptions}

\* C9: handleUpdateQuantity with a quantity below 1 removes the one line
\* with the given item id and options; every other line stays, in order.
C9_RemoveOnlyLine ==
    [][\A item \in Catalog : \A newQuantity \in -1..0 :
       \A selectedOptions \in AllOptionChoices :
        handleUpdateQuantity(item.id, newQuantity, selectedOptions)
        => LET gone == LinesOf(cart, item.id, selectedOptions)
           IN  /\ Cardinality(gone) <= 1
               /\ Len(cart') = Len(cart) - Cardinality(gone)
               /\ \A i \in 1..Len(cart) :
                    i \notin gone =>
                        cart'[i - Cardinality({g \in gone : g < i})] = cart[i]]_vars

\* since the submission in flight was started with one line, that line has
\* been removed and a line of the same item with other options, added
\* after it, is the cart
C9_Witness ==
    /\ Len(saveCalls) = 1
    /\ Len(Submitted) = 1
    /\ Len(cart) = 1
    /\ cart[1].id = Submitted[1].id
    /\ cart[1].selectedOptions # Submitted[1].selectedOptions

\* the requests the step has added to updateReqs
Sent == SubSeq(updateReqs', Len(updateReqs) + 1, Len(updateReqs'))

\* the document an updateDoc request is for
DocOf(req) == CHOOSE i \in 1..Len(dbOrders) : dbOrders[i].id = req.id

\* C10: a confirmation sends exactly one updateDoc for every pending order
\* of this device and none for any other order, and the store applies an
\* updateDoc of a confirmation only to an order of this device that is
\* pending when it is applied.
C10_UpdatesOnlyPending ==
    [][/\ \A c \in 1..Len(tableCalls) :
            getDocsResolves(c) =>
                \A i \in 1..Len(dbOrders) :
                    Cardinality({k \in 1..Len(Sent) :
                                    Sent[k].id = dbOrders[i].id})
                        = IF IsOwnPending(dbOrders[i]) THEN 1 ELSE 0
       /\ \A r \in 1..Len(updateReqs) :
            updateDocResolves(r) =>
                IsOwnPending(dbOrders[DocOf(updateReqs[r])])]_vars

\* C11 as stated: a URL table parameter that is present becomes the table
\* number and the stored table_number; without one, a stored value becomes
\* the table number and storage is unchanged; with neither, the table
\* number stays unset.
C11_UrlWins ==
    [][\A tableFromUrl \in UrlTables :
        Mount(tableFromUrl) =>
            IF tableFromUrl # None
            THEN tableNumber' = tableFromUrl /\ storedTable' = tableFromUrl
            ELSE IF storedTable # None
            THEN tableNumber' = storedTable /\ storedTable' = storedTable
            ELSE tableNumber' = <<>> /\ storedTable' = None]_vars

\* C11 amended: a URL table parameter that is present and not empty becomes
\* the table number and the stored table_number, whatever was stored; an
\* absent or empty one leaves storage unchanged, and the stored value, if
\* there is one, becomes the table number; otherwise the table number stays
\* unset.
C11_NonEmptyUrlWins ==
    [][\A tableFromUrl \in UrlTables :
        Mount(tableFromUrl) =>
            IF tableFromUrl # None /\ tableFromUrl # <<>>
            THEN tableNumber' = tableFromUrl /\ storedTable' = tableFromUrl
            ELSE /\ storedTable' = storedTable
                 /\ tableNumber' = IF storedTable # None THEN storedTable
                                                         ELSE <<>>]_vars

\* the effects have run and the table number and the stored value are the
\* URL parameter, which none of the stored values is
C11_Witness ==
    /\ mounted
    /\ confirms = 0
    /\ tableNumber = <<"5">>
    /\ storedTable = <<"5">>
    /\ <<"5">> \notin StoredTables

\* C12: the modal is open until the effects have run and stays open unless
\* they resolved a table number; after that it closes only when a confirm
\* resumes with every store update done, a confirm of a blank value or a
\* failed confirm leaves it as it is, and it opens only on the edit button.
C12_ModalStateMachine ==
    [][/\ (~mounted => showTableModal)
       /\ \A tableFromUrl \in UrlTables :
            Mount(tableFromUrl) => (showTableModal' <=> ~Truthy(tableNumber'))
       /\ (mounted /\ showTableModal /\ ~showTableModal' =>
                \E c \in 1..Len(tableCalls) :
                    /\ handleTableNumberSubmitThen(c)
                    /\ ~tableCalls[c].failed)
       /\ (handleTableNumberSubmit /\ trim(tableNumber) = <<>> =>
                showTableModal' /\ UNCHANGED vars)
       /\ \A c \in 1..Len(tableCalls) :
            handleTableNumberSubmitCatch(c) => showTableModal' = showTableModal
       /\ (~showTableModal /\ showTableModal' => handleTableNumberClick)]_vars

\* the modal is closed on a table number that can only have been typed into
\* the open modal: a confirm has closed it
C12_Witness ==
    /\ ~showTableModal
    /\ tableNumber = <<"7">>
    /\ tableCalls = <<>>
    /\ <<"7">> \notin UrlTables \cup StoredTables

\* the step delivers the oldest emitted snapshot to the callback
Delivered ==
    /\ listener # <<>>
    /\ listener' = Tail(listener)
    /\ subscription' = "open"

\* C13: when a snapshot is delivered the local order list becomes the
\* snapshot, and no order the list held that the snapshot does not hold,
\* an optimistically merged one included, is in the list any more.
C13_SnapshotReplaces ==
    [][Delivered =>
        /\ orders' = Head(listener)
        /\ \A i \in 1..Len(orders) :
            Occurrences(Head(listener), orders[i].id) = 0
                => Occurrences(orders', orders[i].id) = 0]_vars

\* the submission has ended and merged its order, which the store holds,
\* and a snapshot emitted before the store had it has emptied the list
C13_Witness ==
    /\ Len(OwnDocs) = 1
    /\ now = 1
    /\ saveCalls = <<>>
    /\ listener = <<>>
    /\ ~isLoadingOrders
    /\ orders = <<>>

\* the step is a status change by staff
StaffStep ==
    \E i \in 1..Len(dbOrders) : \E status \in {"completed", "cancelled"} :
        StaffSetsStatus(i, status)

\* C14: a step of the client leaves every document of the store as it is
\* but for its tableNumber, the status in particular, and a document the
\* client adds has the status pending.
C14_StatusNotWritten ==
    [][~StaffStep =>
        /\ Len(dbOrders') >= Len(dbOrders)
        /\ \A i \in 1..Len(dbOrders) :
            /\ dbOrders'[i].status = dbOrders[i].status
            /\ dbOrders'[i] =
                    [dbOrders[i] EXCEPT !.tableNumber = dbOrders'[i].tableNumber]
        /\ \A i \in (Len(dbOrders) + 1)..Len(dbOrders') :
            dbOrders'[i].status = "pending"]_vars

\* the client has created an order, which is in the local list for the
\* payment step, and a table confirmation has rewritten its tableNumber;
\* it is pending still
C14_Witness ==
    /\ Len(OwnDocs) = 1
    /\ OwnDocs[1].tableNumber = [str |-> <<"5">>]
    /\ OwnDocs[1].status = "pending"
    /\ Len(orders) = 1
    /\ tableCalls = <<>>

\* C15: unsubscribe is called once when the view is discarded and never
\* otherwise, and from then on the local order list and the loading flag of
\* the order history do not change.
C15_TornDownOnce ==
    /\ [](unsubscribes = IF discarded THEN 1 ELSE 0)
    /\ [](discarded => subscription = "closed" /\ listener = <<>>)
    /\ [][discarded =>
            orders' = orders /\ isLoadingOrders' = isLoadingOrders]_vars

\* the view was discarded with a list that shows the order pending, and
\* staff have completed the order since
C15_Witness ==
    /\ discarded
    /\ unsubscribes = 1
    /\ Len(orders) = 1
    /\ orders[1].status = "pending"
    /\ OwnDocs[1].status = "completed"

\* C16: the cart total is the same for every order of the lines of the
\* cart.
C16_TotalOrderFree ==
    \A p \in Permutations(1..Len(cart)) :
        cartTotalOf([i \in 1..Len(cart) |-> cart[p[i]]]) = cartTotal

\* C17: the tableNumber of every document of the store is an integer.
C17_IntegerTable ==
    \A i \in 1..Len(dbOrders) : DOMAIN dbOrders[i].tableNumber = {"num"}

\* C18: when a read of the catalog load has failed, the load returns no
\* category and no item; what the page holds when the load has ended is
\* what the load returned, the two collections or nothing; and once the
\* effects have run, isLoading becomes false.
C18_LoadAllOrNothing ==
    /\ [](loadCall.error # "none" =>
            loadCall.categories = {} /\ loadCall.menuItems = {})
    /\ [](loadCall.pc = "done" =>
            /\ ~isLoading
            /\ categories = loadCall.categories
            /\ menuItems = loadCall.menuItems
            /\ \/ categories = Categories /\ menuItems = dbMenuItems
               \/ categories = {} /\ menuItems = {})
    /\ (mounted ~> ~isLoading)

\* the categories were read, the read of the items failed, and the page is
\* rendered with no category and no item
C18_Witness ==
    /\ loadCall.pc = "done"
    /\ loadCall.error = "menuItems"
    /\ ~isLoading
    /\ categories = {}
    /\ menuItems = {}

\* C19: the order a submit trigger sends has the status pending, the
\* payment method cash, the id of the device, the parsed table number, the
\* cart of the trigger as its items and the total of that cart; and the
\* document the store adds is that order, whatever the cart is by then.
C19_PersistedOrder ==
    [][/\ (Len(saveCalls') = Len(saveCalls) + 1 =>
            LET o == saveCalls'[Len(saveCalls')].newOrder
            IN  /\ o.status = "pending"
                /\ o.paymentMethod = "cash"
                /\ o.deviceId = getDeviceId
                /\ o.tableNumber = parseInt(tableNumber)
                /\ o.items = cart
                /\ o.total = cartTotalOf(cart))
       /\ (Len(dbOrders') = Len(dbOrders) + 1 =>
            \E c \in 1..Len(saveCalls) :
                LET o == saveCalls[c].newOrder
                    d == dbOrders'[Len(dbOrders')]
                IN  /\ saveCalls[c].pc = "addDoc"
                    /\ saveCalls'[c].pc = "resolved"
                    /\ d.status = o.status
                    /\ d.paymentMethod = o.paymentMethod
                    /\ d.deviceId = o.deviceId
                    /\ d.tableNumber = o.tableNumber
                    /\ d.items = o.items
                    /\ d.total = o.total
                    /\ d.createdAt = o.createdAt)]_vars

\* the store holds the order of a cart that has been changed since the
\* trigger; handleOrderNow has not resumed
C19_Witness ==
    /\ Len(OwnDocs) = 1
    /\ Len(saveCalls) = 1
    /\ saveCalls[1].pc = "resolved"
    /\ OwnDocs[1].items = Submitted
    /\ cart # Submitted
    /\ OwnDocs[1].status = "pending"
    /\ OwnDocs[1].tableNumber = [num |-> 5]
    /\ OwnDocs[1].total = cartTotalOf(Submitted)

\* confirm c has resumed in this step: only the continuations of
\* handleTableNumberSubmit take a call out of tableCalls
TableResumed(c) ==
    /\ c \in 1..Len(tableCalls)
    /\ tableCalls' = RemoveAt(tableCalls, c)

\* C20: a confirm writes the new value to localStorage in the step that
\* starts it, before any update is sent; a confirm one of whose updates has
\* failed resumes without closing the modal and without touching the store
\* or localStorage; and the tableNumber of a document changes only to the
\* value of an update the store applies, so that no applied update is
\* taken back.
C20_NoRollback ==
    [][/\ (Len(tableCalls') = Len(tableCalls) + 1 =>
            /\ storedTable' = tableCalls'[Len(tableCalls')].newTableNumber
            /\ updateReqs' = updateReqs
            /\ dbOrders' = dbOrders)
       /\ \A c \in 1..Len(tableCalls) :
            TableResumed(c) /\ tableCalls[c].failed =>
                /\ showTableModal' = showTableModal
                /\ storedTable' = storedTable
                /\ dbOrders' = dbOrders
                /\ updateReqs' = updateReqs
       /\ \A i \in 1..Len(dbOrders) :
            dbOrders'[i].tableNumber # dbOrders[i].tableNumber =>
                \E r \in 1..Len(updateReqs) :
                    /\ updateReqs[r].id = dbOrders[i].id
                    /\ updateReqs' = RemoveAt(updateReqs, r)
                    /\ dbOrders'[i].tableNumber =
                            [str |-> updateReqs[r].tableNumber]]_vars

\* a confirm of "7" has ended with the modal open: of the two pending
\* orders one has the new table number and the other its old one, and
\* localStorage holds "7"
C20_Witness ==
    /\ confirms = 1
    /\ tableCalls = <<>>
    /\ updateReqs = <<>>
    /\ showTableModal
    /\ storedTable = <<"7">>
    /\ \E i, j \in 1..Len(dbOrders) :
            /\ dbOrders[i].status = "pending"
            /\ dbOrders[j].status = "pending"
            /\ dbOrders[i].tableNumber = [str |-> <<"7">>]
            /\ dbOrders[j].tableNumber = [num |-> 3]
            /\ IsOwn(dbOrders[i]) /\ IsOwn(dbOrders[j])

\* C21: every line of the cart has a quantity of at least 1, whatever the
\* additions and quantity updates before: an update to a quantity below 1
\* takes the line out instead of storing the quantity.
C21_QuantityPositive ==
    \A i \in 1..Len(cart) : cart[i].quantity >= 1

\* since the submission in flight was started with one line, that line has
\* been taken out by an update below 1, and a line of the other item has
\* been added and brought to the largest quantity
C21_Witness ==
    /\ Len(saveCalls) = 1
    /\ Len(Submitted) = 1
    /\ Len(cart) = 1
    /\ cart[1].id # Submitted[1].id
    /\ cart[1].quantity = MaxQty

\* C22: handleUpdateQuantity with a quantity of at least 1 sets the quantity
\* of the one line with the given item id and options and leaves the number
\* and order of the lines and every other line as they were; with no such
\* line the cart stays as it was, whatever the quantity.
C22_SetsQuantity ==
    [][\A item \in Catalog : \A newQuantity \in -1..MaxQty :
       \A selectedOptions \in AllOptionChoices :
        handleUpdateQuantity(item.id, newQuantity, selectedOptions)
        => LET hit == LinesOf(cart, item.id, selectedOptions)
           IN  /\ hit = {} => cart' = cart
               /\ newQuantity >= 1 =>
                    /\ Cardinality(hit) <= 1
                    /\ Len(cart') = Len(cart)
                    /\ \A i \in 1..Len(cart) :
                         cart'[i] = IF i \in hit
                                    THEN [cart[i] EXCEPT !.quantity = newQuantity]
                                    ELSE cart[i]]_vars

\* since the submission in flight was started with one line at the largest
\* quantity, that line is back at 1 in its place, and the line after it, of
\* the same item with other options, is at the largest quantity
C22_Witness ==
    /\ Len(saveCalls) = 1
    /\ Len(Submitted) = 1
    /\ Submitted[1].quantity = MaxQty
    /\ Len(cart) = 2
    /\ cart[1] = [Submitted[1] EXCEPT !.quantity = 1]
    /\ cart[2].id = cart[1].id
    /\ cart[2].selectedOptions # cart[1].selectedOptions
    /\ cart[2].quantity = MaxQty

\* C23: when handleOrderNow resumes after saveOrder has resolved, the lines
\* its setCart([]) takes out of the cart are the lines of the order that was
\* stored, also when lines were added or quantities changed while saveOrder
\* was in flight.
C23_NoContentLost ==
    [][\A c \in 1..Len(saveCalls) :
        Resumed(c) /\ saveCalls[c].pc = "resolved" =>
            /\ cart' = <<>>
            /\ cart = saveCalls[c].newOrder.items
            /\ \E i \in 1..Len(dbOrders) :
                    /\ dbOrders[i].id = saveCalls[c].orderId
                    /\ dbOrders[i].items = cart]_vars

\* C24: whenever the table modal is closed the table number is not empty, so
\* that the edit button, rendered for a table number that is not empty, is
\* there in every state with the modal closed and the modal can be opened
\* again.
C24_ClosedHasTable ==
    ~showTableModal => Truthy(tableNumber)

====
